---- MODULE Spec2Model ----
(***************************************************************************)
(* Model of the three React components of the repository:                  *)
(*   LoginPage (AntD form, src/unnamed/part_000 lines 63-199),             *)
(*   Login     (plain form, src/unnamed/part_000 lines 204-243),           *)
(*   HomePage  (static card list, src/src/pages/Home.tsx).                 *)
(* Every component is a leaf; one of them is mounted and then receives     *)
(* user events.  console and the antd message API are global objects.      *)
(*                                                                         *)
(* Strings are TLA+ strings; non-ASCII letters of the source literals are  *)
(* written without their accents.  A console entry is a record             *)
(* [level, args] whose args is the tuple of printed strings; the payload   *)
(* object printed by onFinish is flattened to its two fields.              *)
(***************************************************************************)
EXTENDS Integers, Sequences, FiniteSets, TLC

\* ---------------------------------------------------------------------------
\* Bounds of the exploration
\* ---------------------------------------------------------------------------

\* Largest number of notifications (= onFinish calls) explored.
MaxSubmits == 3

\* Largest number of console entries the Login component may produce.
MaxConsole == 6

\* Values the user types into the identifier field of LoginPage.
Usernames == {"", "admin", "Admin", "admin ", "guest"}

\* Values the user types into the secret field of LoginPage
\* (lengths 0, 5, 7, 8 and 11).
Passwords == {"", "short", "1234567", "12345678", "password123"}

\* Values typed into the two fields of Login.
LoginStrings == {"", "guest", "password123"}

\* Payloads the antd Form hands to onFinish.  Both Form.Items carry the rule
\* required: true (lines 159 and 177), so the Form calls onFinish only with
\* non-empty fields.
FormValues == [username : {"admin", "guest"}, password : {"short", "password123"}]

\* ---------------------------------------------------------------------------
\* State
\* ---------------------------------------------------------------------------

VARIABLES
    mounted,        \* which component is mounted: "none" before the first render
    username,       \* LoginPage: useState('')      (line 68)
    password,       \* LoginPage: useState('')      (line 69)
    loading,        \* LoginPage: useState(false)   (line 73)
    email,          \* Login: useState("")          (line 206)
    loginPassword,  \* Login: password, useState("") (line 205)
    console,        \* global console: sequence of entries
    notifications,  \* antd message: sequence of notifications shown
    techStackData,  \* Home.tsx: the module-level list (line 64)
    cards           \* Home.tsx: the cards rendered by renderTechCards

vars == <<mounted, username, password, loading, email, loginPassword,
          console, notifications, techStackData, cards>>

loginPageState == <<username, password, loading>>
loginState == <<email, loginPassword>>
homeState == <<techStackData, cards>>

\* ---------------------------------------------------------------------------
\* Console and notification entries
\* ---------------------------------------------------------------------------

consoleLog(args) == [level |-> "log", args |-> args]

consoleError(args) == [level |-> "error", args |-> args]

messageSuccess == [type |-> "success", content |-> "Login bem-sucedido!"]

messageError == [type |-> "error", content |-> "Usuario ou senha invalidos."]

FormValuesLabel == "Form values (do AntD):"

\* ---------------------------------------------------------------------------
\* Home.tsx
\* ---------------------------------------------------------------------------

techStackDataInit ==
    << [id |-> "vite", name |-> "Vite",
        logoUrl |-> "https://vitejs.dev/logo.svg",
        description |-> "Um \"build tool\" para front-end moderno que oferece uma experiencia de desenvolvimento extremamente rapida, com Hot Module Replacement (HMR) instantaneo."],
       [id |-> "react", name |-> "React",
        logoUrl |-> "https://upload.wikimedia.org/wikipedia/commons/a/a7/React-icon.svg",
        description |-> "Uma biblioteca JavaScript declarativa, eficiente e flexivel para criar interfaces de usuario (UIs) complexas, baseada em componentes reutilizaveis."],
       [id |-> "typescript", name |-> "TypeScript",
        logoUrl |-> "https://upload.wikimedia.org/wikipedia/commons/4/4c/Typescript_logo_2020.svg",
        description |-> "Um superset do JavaScript que adiciona tipagem estatica opcional. Ajuda a construir aplicacoes robustas, detectar erros em tempo de compilacao e melhorar a manutenibilidade."],
       [id |-> "ant-design", name |-> "Ant Design (antd)",
        logoUrl |-> "https://gw.alipayobjects.com/zos/rmsportal/KDpgvguMpGfqaHPjicRK.svg",
        description |-> "Uma biblioteca de componentes de UI para React, seguindo a linguagem de design Ant. Oferece um conjunto rico de componentes de alta qualidade e prontos para uso."] >>

\* One <Col key><Card><Card.Meta avatar title description/></Card></Col>.
techCard(tech) ==
    [key |-> tech.id,
     avatarSrc |-> tech.logoUrl,
     avatarAlt |-> tech.name \o " Logo",
     title |-> tech.name,
     description |-> tech.description]

\* Variant of renderTechCards that loses the last descriptor.
renderTechCards_dropsLast(data) == [i \in 1..(Len(data) - 1) |-> techCard(data[i])]

\* techStackData.map((tech) => <Col ...>), in list order.
renderTechCards(data) == [i \in 1..Len(data) |-> techCard(data[i])]

\* First render of HomePage.
HomePage ==
    /\ mounted = "none"
    /\ mounted' = "HomePage"
    /\ cards' = renderTechCards(techStackData)
    /\ UNCHANGED <<techStackData, loginPageState, loginState, console, notifications>>

\* ---------------------------------------------------------------------------
\* LoginPage
\* ---------------------------------------------------------------------------

\* First render of LoginPage: the three useState initialisers.
LoginPage ==
    /\ mounted = "none"
    /\ mounted' = "LoginPage"
    /\ username' = ""
    /\ password' = ""
    /\ loading' = FALSE
    /\ UNCHANGED <<loginState, homeState, console, notifications>>

\* Variant of handleUsernameChange that also clears the secret field.
handleUsernameChange_clearsPassword(value) ==
    /\ mounted = "LoginPage"
    /\ username' = value
    /\ password' = ""
    /\ UNCHANGED <<mounted, loading, loginState, homeState,
                   console, notifications>>

\* Input onChange of the username field; value is e.target.value.
handleUsernameChange(value) ==
    /\ mounted = "LoginPage"
    /\ username' = value
    /\ UNCHANGED <<mounted, password, loading, loginState, homeState,
                   console, notifications>>

\* Input.Password onChange={(e) => setPassword(e.target.value)}.
passwordOnChange(value) ==
    /\ mounted = "LoginPage"
    /\ password' = value
    /\ UNCHANGED <<mounted, username, loading, loginState, homeState,
                   console, notifications>>

\* Variant of validatePassword with the threshold one too low.
validatePassword_min7(pass) ==
    IF Len(pass) < 7 THEN FALSE ELSE TRUE

\* Variant of validatePassword that rejects a length of exactly 8.
validatePassword_over8(pass) ==
    IF Len(pass) <= 8 THEN FALSE ELSE TRUE

validatePassword(pass) ==
    IF Len(pass) < 8 THEN FALSE ELSE TRUE

\* Variant of the condition that compares the identifier ignoring case.
credentialsAccepted_ignoreCase(user, pass) ==
    validatePassword(pass) /\ user \in {"admin", "Admin"}

\* The condition of line 110 on the values it is applied to.
credentialsAccepted(user, pass) ==
    validatePassword(pass) /\ user = "admin"

\* Variant of onFinish that decides on the payload instead of the state.
onFinish_readsValues(values) ==
    /\ mounted = "LoginPage"
    /\ Len(notifications) < MaxSubmits
    /\ IF credentialsAccepted(values.username, values.password)
       THEN /\ console' = Append(console,
                    consoleLog(<<FormValuesLabel, values.username, values.password>>))
            /\ notifications' = Append(notifications, messageSuccess)
       ELSE /\ console' = console \o
                    << consoleLog(<<FormValuesLabel, values.username, values.password>>),
                       consoleError(<<"Falha no login. Verifique os dados.">>) >>
            /\ notifications' = Append(notifications, messageError)
    /\ UNCHANGED <<mounted, loginPageState, loginState, homeState>>

\* Variant of onFinish without the else: the error follows every submission.
onFinish_noElse(values) ==
    /\ mounted = "LoginPage"
    /\ Len(notifications) < MaxSubmits
    /\ IF credentialsAccepted(username, password)
       THEN /\ console' = console \o
                    << consoleLog(<<FormValuesLabel, values.username, values.password>>),
                       consoleError(<<"Falha no login. Verifique os dados.">>) >>
            /\ notifications' = notifications \o <<messageSuccess, messageError>>
       ELSE /\ console' = console \o
                    << consoleLog(<<FormValuesLabel, values.username, values.password>>),
                       consoleError(<<"Falha no login. Verifique os dados.">>) >>
            /\ notifications' = Append(notifications, messageError)
    /\ UNCHANGED <<mounted, loginPageState, loginState, homeState>>

\* Variant of onFinish that stops answering after two failures.
onFinish_lockout(values) ==
    /\ mounted = "LoginPage"
    /\ Len(notifications) < MaxSubmits
    /\ Cardinality({i \in 1..Len(notifications) : notifications[i] = messageError}) < 2
    /\ IF credentialsAccepted(username, password)
       THEN /\ console' = Append(console,
                    consoleLog(<<FormValuesLabel, values.username, values.password>>))
            /\ notifications' = Append(notifications, messageSuccess)
       ELSE /\ console' = console \o
                    << consoleLog(<<FormValuesLabel, values.username, values.password>>),
                       consoleError(<<"Falha no login. Verifique os dados.">>) >>
            /\ notifications' = Append(notifications, messageError)
    /\ UNCHANGED <<mounted, loginPageState, loginState, homeState>>

\* Variant of onFinish that empties the secret field after a failure.
onFinish_resetsPassword(values) ==
    /\ mounted = "LoginPage"
    /\ Len(notifications) < MaxSubmits
    /\ IF credentialsAccepted(username, password)
       THEN /\ console' = Append(console,
                    consoleLog(<<FormValuesLabel, values.username, values.password>>))
            /\ notifications' = Append(notifications, messageSuccess)
            /\ password' = password
       ELSE /\ console' = console \o
                    << consoleLog(<<FormValuesLabel, values.username, values.password>>),
                       consoleError(<<"Falha no login. Verifique os dados.">>) >>
            /\ notifications' = Append(notifications, messageError)
            /\ password' = ""
    /\ UNCHANGED <<mounted, username, loading, loginState, homeState>>

\* Form onFinish callback; values is the payload collected by the Form.
onFinish(values) ==
    /\ mounted = "LoginPage"
    /\ Len(notifications) < MaxSubmits
    /\ IF credentialsAccepted(username, password)
       THEN /\ console' = Append(console,
                    consoleLog(<<FormValuesLabel, values.username, values.password>>))
            /\ notifications' = Append(notifications, messageSuccess)
       ELSE /\ console' = console \o
                    << consoleLog(<<FormValuesLabel, values.username, values.password>>),
                       consoleError(<<"Falha no login. Verifique os dados.">>) >>
            /\ notifications' = Append(notifications, messageError)
    /\ UNCHANGED <<mounted, loginPageState, loginState, homeState>>

\* ---------------------------------------------------------------------------
\* Login
\* ---------------------------------------------------------------------------

\* First render of Login: the useState initialisers, then both effects run
\* once after the mount, in declaration order.
Login ==
    /\ mounted = "none"
    /\ mounted' = "Login"
    /\ email' = ""
    /\ loginPassword' = ""
    /\ console' = console \o << consoleLog(<<"">>), consoleLog(<<"">>) >>
    /\ UNCHANGED <<loginPageState, homeState, notifications>>

\* Variant of emailOnChange whose effect never runs.
emailOnChange_noEffect(value) ==
    /\ mounted = "Login"
    /\ Len(console) < MaxConsole
    /\ email' = value
    /\ UNCHANGED <<console, mounted, loginPassword, loginPageState, homeState, notifications>>

\* <input value={email} onChange={(e) => setEmail(e.target.value)} />.
\* A changed value re-renders the component and the effect whose dependency
\* is [email] runs and logs the new value; an equal value bails out.
emailOnChange(value) ==
    /\ mounted = "Login"
    /\ Len(console) < MaxConsole
    /\ email' = value
    /\ console' = IF value # email
                  THEN Append(console, consoleLog(<<value>>))
                  ELSE console
    /\ UNCHANGED <<mounted, loginPassword, loginPageState, homeState, notifications>>

\* <input type="password" onChange={(e) => setPassword(e.target.value)} />.
loginPasswordOnChange(value) ==
    /\ mounted = "Login"
    /\ Len(console) < MaxConsole
    /\ loginPassword' = value
    /\ console' = IF value # loginPassword
                  THEN Append(console, consoleLog(<<value>>))
                  ELSE console
    /\ UNCHANGED <<mounted, email, loginPageState, homeState, notifications>>

\* <button type="button" onClick={handleEntrar}>.
handleEntrar ==
    /\ mounted = "Login"
    /\ Len(console) + 2 <= MaxConsole
    /\ console' = console \o << consoleLog(<<"email:", email>>),
                                consoleLog(<<"password:", loginPassword>>) >>
    /\ UNCHANGED <<mounted, loginState, loginPageState, homeState, notifications>>

\* ---------------------------------------------------------------------------
\* Specification
\* ---------------------------------------------------------------------------

Init ==
    /\ mounted = "none"
    /\ username = ""
    /\ password = ""
    /\ loading = FALSE
    /\ email = ""
    /\ loginPassword = ""
    /\ console = <<>>
    /\ notifications = <<>>
    /\ techStackData = techStackDataInit
    /\ cards = <<>>

Next ==
    \/ HomePage
    \/ LoginPage
    \/ \E value \in Usernames : handleUsernameChange(value)
    \/ \E value \in Passwords : passwordOnChange(value)
    \/ \E values \in FormValues : onFinish(values)
    \/ Login
    \/ \E value \in LoginStrings : emailOnChange(value)
    \/ \E value \in LoginStrings : loginPasswordOnChange(value)
    \/ handleEntrar

Spec == Init /\ [][Next]_vars

TypeOK ==
    /\ mounted \in {"none", "LoginPage", "Login", "HomePage"}
    /\ username \in Usernames
    /\ password \in Passwords
    /\ loading = FALSE
    /\ Len(notifications) <= MaxSubmits

\* ---------------------------------------------------------------------------
\* Properties
\* ---------------------------------------------------------------------------

Last(seq) == seq[Len(seq)]

\* The predicate of the specification: secret length >= 8 and the identifier
\* equal to the accepted literal; the notification it calls for.
Decision(identifier, secret) ==
    IF Len(secret) >= 8 /\ identifier = "admin" THEN messageSuccess ELSE messageError

\* A step in which a submission delivered its notification.
notified == notifications' # notifications

\* A step that printed the payload line of onFinish (line 103).
onFinishLogged ==
    /\ Len(console') > Len(console)
    /\ console'[Len(console) + 1].level = "log"
    /\ console'[Len(console) + 1].args[1] = FormValuesLabel

\* C1: a submission made while the stored secret is shorter than 8 characters
\* (the empty secret included) delivers the failure notification and nothing
\* else, whatever the stored identifier.
C1_ShortSecretFails ==
    [][(notified /\ Len(password) < 8)
          => notifications' = Append(notifications, messageError)]_vars

\* A failure was delivered while the identifier is the accepted one and the
\* secret has 7 characters.
C1_Witness ==
    /\ mounted = "LoginPage"
    /\ Len(notifications) > 0
    /\ Last(notifications) = messageError
    /\ username = "admin"
    /\ Len(password) = 7

\* C2: a submission made while the stored identifier is "admin" and the
\* stored secret has at least 8 characters delivers the success notification.
C2_AcceptedSucceeds ==
    [][(notified /\ username = "admin" /\ Len(password) >= 8)
          => notifications' = Append(notifications, messageSuccess)]_vars

\* A success was delivered with a secret of exactly 8 characters.
C2_Witness ==
    /\ mounted = "LoginPage"
    /\ Len(notifications) > 0
    /\ Last(notifications) = messageSuccess
    /\ username = "admin"
    /\ Len(password) = 8

\* C3: a submission made while the stored identifier differs from "admin"
\* (by case or by a trailing blank too) delivers the failure notification,
\* whatever the stored secret.
C3_OtherIdentifierFails ==
    [][(notified /\ username # "admin")
          => notifications' = Append(notifications, messageError)]_vars

\* A failure was delivered for the identifier "Admin" and a long secret.
C3_Witness ==
    /\ mounted = "LoginPage"
    /\ Len(notifications) > 0
    /\ Last(notifications) = messageError
    /\ username = "Admin"
    /\ Len(password) >= 8

\* C4: every call of onFinish adds exactly one notification, a success or a
\* failure, and nothing else adds one; the three scenarios of the
\* specification give success, failure and failure.
C4_ExactlyOneNotification ==
    [][/\ onFinishLogged <=> notified
       /\ onFinishLogged =>
            /\ Len(notifications') = Len(notifications) + 1
            /\ SubSeq(notifications', 1, Len(notifications)) = notifications
            /\ Last(notifications') \in {messageSuccess, messageError}
            /\ (username = "admin" /\ password = "password123"
                    => Last(notifications') = messageSuccess)
            /\ (username = "guest" /\ password = "password123"
                    => Last(notifications') = messageError)
            /\ (username = "admin" /\ password = "short"
                    => Last(notifications') = messageError)]_vars

\* The three scenarios were submitted one after the other.
C4_Witness ==
    /\ mounted = "LoginPage"
    /\ notifications = <<messageSuccess, messageError, messageError>>
    /\ username = "admin"
    /\ password = "short"

\* C5: a step that changes one field of a form leaves the other field of
\* that form as it was, in both login components.
C5_FieldIndependence ==
    [][/\ username' # username => password' = password
       /\ password' # password => username' = username
       /\ email' # email => loginPassword' = loginPassword
       /\ loginPassword' # loginPassword => email' = email]_vars

\* Both fields of LoginPage hold a typed value: the later mutation kept the
\* earlier one.
C5_Witness ==
    /\ mounted = "LoginPage"
    /\ username = "guest"
    /\ password = "password123"

\* C6: for every payload the Form may hand over, onFinish can deliver the
\* notification the predicate gives on the stored (username, password) and
\* cannot deliver any other one: the payload has no influence.
C6_OutcomeFollowsState ==
    (mounted = "LoginPage" /\ Len(notifications) < MaxSubmits) =>
        \A values \in FormValues :
            /\ ENABLED (onFinish(values)
                        /\ Last(notifications') = Decision(username, password))
            /\ ~ ENABLED (onFinish(values)
                          /\ Last(notifications') # Decision(username, password))

\* The payload satisfied the predicate and the failure was reported, and
\* later a payload that does not satisfy it was answered with a success.
C6_Witness ==
    /\ Len(console) = 3
    /\ console[1] = consoleLog(<<FormValuesLabel, "admin", "password123">>)
    /\ console[2].level = "error"
    /\ console[3] = consoleLog(<<FormValuesLabel, "guest", "short">>)
    /\ notifications = <<messageError, messageSuccess>>

\* C7: whatever was submitted before, a submission is possible and appends
\* to the notifications shown so far the one that the predicate gives on the
\* field values held now.
C7_NoLockout ==
    (mounted = "LoginPage" /\ Len(notifications) < MaxSubmits) =>
        ENABLED (/\ \E values \in FormValues : onFinish(values)
                 /\ notifications' = Append(notifications, Decision(username, password)))

\* Two failures were followed by a success.
C7_Witness ==
    /\ mounted = "LoginPage"
    /\ notifications = <<messageError, messageError, messageSuccess>>

\* C8 as stated: every step that changes a stored field, and every
\* submission, adds a console entry.
C8_LogOnEveryChange ==
    [][(\/ username' # username
        \/ password' # password
        \/ email' # email
        \/ loginPassword' # loginPassword
        \/ notified)
          => Len(console') > Len(console)]_vars

\* C8 amended: in Login a changed email or password appends one entry with
\* the new value and every other console growth after the mount is the pair
\* printed by handleEntrar with the current values; in LoginPage a field
\* change leaves the console alone and a submission appends the payload line
\* first.
C8_LogPerComponent ==
    [][/\ email' # email => console' = Append(console, consoleLog(<<email'>>))
       /\ loginPassword' # loginPassword
            => console' = Append(console, consoleLog(<<loginPassword'>>))
       /\ (mounted = "Login" /\ console' # console
              /\ email' = email /\ loginPassword' = loginPassword)
            => console' = console \o << consoleLog(<<"email:", email>>),
                                        consoleLog(<<"password:", loginPassword>>) >>
       /\ (username' # username \/ password' # password) => console' = console
       /\ notified => /\ onFinishLogged
                      /\ SubSeq(console', 1, Len(console)) = console]_vars

\* Login was mounted, the email was typed and the button was pressed.
C8_Witness ==
    /\ mounted = "Login"
    /\ console = << consoleLog(<<"">>), consoleLog(<<"">>), consoleLog(<<"guest">>),
                    consoleLog(<<"email:", "guest">>), consoleLog(<<"password:", "">>) >>

\* C9: once HomePage is rendered there is one card per descriptor, in list
\* order, showing that descriptor's name, logo and description under the
\* descriptor's id as key; the keys are pairwise distinct; the list is the
\* one the module defined.
C9_OneCardPerDescriptor ==
    /\ techStackData = techStackDataInit
    /\ mounted = "HomePage" =>
        /\ Len(cards) = Len(techStackData)
        /\ \A i \in 1..Len(techStackData) :
              /\ i \in DOMAIN cards
              /\ cards[i].key = techStackData[i].id
              /\ cards[i].title = techStackData[i].name
              /\ cards[i].avatarSrc = techStackData[i].logoUrl
              /\ cards[i].description = techStackData[i].description
        /\ \A i, j \in DOMAIN cards : cards[i].key = cards[j].key => i = j

\* The four cards are on the page.
C9_Witness ==
    /\ mounted = "HomePage"
    /\ Len(cards) = 4
    /\ cards[4].title = "Ant Design (antd)"

\* C10: a submission leaves the fields of its form unchanged and the
\* notification just delivered is the one the unchanged fields call for, so
\* that a second submission answers the same; handleEntrar leaves email and
\* password unchanged.
C10_SubmitReadOnly ==
    [][/\ (notified \/ onFinishLogged) =>
            /\ username' = username
            /\ password' = password
            /\ loading' = loading
            /\ Last(notifications') = Decision(username', password')
       /\ (mounted = "Login" /\ Len(console') = Len(console) + 2) =>
            /\ email' = email
            /\ loginPassword' = loginPassword]_vars

\* A failed submission was repeated without touching the fields.
C10_Witness ==
    /\ mounted = "LoginPage"
    /\ notifications = <<messageError, messageError>>
    /\ username = "guest"
    /\ password = "short"
    /\ Len(console) = 4
====
